---- MODULE Spec2Model ----
(***************************************************************************)
(* A model of coverage/pytracer.py: the PyTracer object, its trace         *)
(* function _trace (here: trace), start() and stop(), driven by a host     *)
(* interpreter that delivers call/line/return/exception events.            *)
(*                                                                         *)
(* Python values are represented as follows.                               *)
(*   - None is the string "None"; the empty list [] that __init__ stores   *)
(*     in self.plugin and self.cur_file_dict is the string "[]".           *)
(*   - self.cur_file_dict is a reference to one of the dicts held in       *)
(*     self.data; it is modelled by the key (the trace name) of that dict, *)
(*     so a write through cur_file_dict is a write to data[name].          *)
(*   - self.last_line is the list [0] after __init__ and an int later:     *)
(*     [list |-> TRUE, n |-> 0] and [list |-> FALSE, n |-> k].             *)
(*   - self.data_stack is a reference to a list: "list0" is the list made  *)
(*     by __init__ (contents: stack0), a stream id is the list            *)
(*     data_stacks[id] of the defaultdict.                                 *)
(*   - a frame object is identified by <<stream, depth>>; None as a frame  *)
(*     is NoFrame.                                                         *)
(***************************************************************************)
EXTENDS Integers, Sequences, FiniteSets, TLC

\* Bounds of the model.
MaxDepth == 2      \* frames a stream of the traced program nests
MaxLine == 2       \* line numbers are 1..MaxLine
MaxWarn == 1       \* calls of the warn callback that are counted
MaxEvents == 5     \* events the host delivers in a run of one stream
StreamEvents == 4  \* events the host delivers in a run of two streams
LifeEvents == 3    \* events the host delivers in a run with stop()

Streams == {"s1", "s2"}
Threads == {"t1", "t2"}
Lines == 1..MaxLine
NoFrame == <<>>

VARIABLES
    tracer,        \* the PyTracer object (a record of its attributes)
    hook,          \* sys.settrace slot of every thread: "none", "self", "other"
    warned,        \* number of calls of self.warn
    host,          \* per stream: the traced program's stack of live frames
    skipped,       \* the frame whose return event the host has just skipped
    last,          \* the operation performed last, and what it returned
                   \* (foreign: stop() found another tool's trace function)
    oracle_calls,  \* per filename: number of calls of self.should_trace
    entered,       \* filenames of the call events handled while not stopped
    ideal,         \* lines (arcs) the frames of unit "a.py" really executed
    solo,          \* per stream: a tracer that is given this stream's events only
    asif,          \* <<the tracer had the skipped return been delivered>>, or <<>>
    events,        \* number of events the host will still deliver
    starter        \* the thread that called start() last, "None" before

vars == <<tracer, hook, warned, host, skipped, last, oracle_calls, entered,
          ideal, solo, asif, events, starter>>

----------------------------------------------------------------------------
(* The collaborators the collector injects.                                *)

Filenames == {"a.py", "b.py", "x.py", "t.html", "t.tmpl"}

\* self.should_trace(filename, frame): the trace oracle's disposition.
should_trace(filename) ==
    CASE filename = "a.py" ->
           [trace |-> TRUE, source_filename |-> "A", plugin |-> "None"]
      [] filename = "b.py" ->
           [trace |-> TRUE, source_filename |-> "B", plugin |-> "None"]
      [] filename = "t.html" ->
           [trace |-> TRUE, source_filename |-> "T", plugin |-> "P"]
      [] filename = "t.tmpl" ->
           [trace |-> TRUE, source_filename |-> "T", plugin |-> "Q"]
      [] OTHER ->
           [trace |-> FALSE, source_filename |-> "None", plugin |-> "None"]

\* What disp.plugin.dynamic_source_file_name() and the function it returns
\* can answer for a frame: no function at all, None, or a name.
DynResults == {"nofunc", "None", "T", "U"}

\* self.check_include(tracename)
check_include(tracename) == tracename \in {"T"}

\* What plugin.line_number_range(frame) can answer.
Ranges == {<<-1, -1>>} \cup {r \in Lines \X Lines : r[1] <= r[2]}

----------------------------------------------------------------------------
(* PyTracer.__init__, followed by the attributes the collector sets.       *)

IntLine(k) == [list |-> FALSE, n |-> k]

NewTracer(arcs, coroutine, threading, warn) ==
    [ data |-> [name \in {} |-> {}],
      arcs |-> arcs,
      should_trace_cache |-> [f \in {} |-> {}],
      warn |-> warn,
      plugin_data |-> [name \in {} |-> "None"],
      threading |-> threading,
      plugin |-> "[]",
      cur_file_dict |-> "[]",
      last_line |-> [list |-> TRUE, n |-> 0],
      data_stack |-> "list0",
      stack0 |-> <<>>,
      data_stacks |-> [s \in Streams |-> <<>>],
      last_exc_back |-> NoFrame,
      last_exc_firstlineno |-> 0,
      thread |-> "None",
      stopped |-> FALSE,
      coroutine_id_func |-> coroutine,
      last_coroutine |-> "None" ]

----------------------------------------------------------------------------
(* Pieces of _trace.  A step of the handler yields an outcome: the tracer  *)
(* after it, whether it raised, and the filenames the oracle was asked.    *)

Ok(t) == [self |-> t, raised |-> FALSE, asked |-> {}]
Raise(t) == [self |-> t, raised |-> TRUE, asked |-> {}]

\* The truth value of self.cur_file_dict: None, [] and an empty dict are false.
Truthy(t) ==
    /\ t.cur_file_dict \notin {"None", "[]"}
    /\ t.data[t.cur_file_dict] # {}

\* A store that empties the dict first.
SetItem_replaces(t, key) == [t EXCEPT !.data[t.cur_file_dict] = {key}]

\* self.cur_file_dict[key] = None, cur_file_dict being a dict.
SetItem(t, key) == [t EXCEPT !.data[t.cur_file_dict] = @ \cup {key}]

\* The list self.data_stack refers to.
CurStack(t) ==
    IF t.data_stack = "list0" THEN t.stack0 ELSE t.data_stacks[t.data_stack]

\* The same list with new contents.
WithStack(t, stk) ==
    IF t.data_stack = "list0"
    THEN [t EXCEPT !.stack0 = stk]
    ELSE [t EXCEPT !.data_stacks[t.data_stack] = stk]

\* if self.coroutine_id_func: self.data_stack = self.data_stacks[cid()]
SwitchStack(t, cid) ==
    IF t.coroutine_id_func THEN [t EXCEPT !.data_stack = cid] ELSE t

\* A pop that restores plugin and cur_file_dict but leaves last_line.
Pop_keeps_last_line(t) ==
    LET stk == CurStack(t) IN
    IF stk = <<>>
    THEN Raise(t)
    ELSE LET top == stk[Len(stk)] IN
         Ok([WithStack(t, SubSeq(stk, 1, Len(stk) - 1)) EXCEPT
                !.plugin = top[1],
                !.cur_file_dict = top[2]])

\* self.plugin, self.cur_file_dict, self.last_line = self.data_stack.pop()
Pop(t) ==
    LET stk == CurStack(t) IN
    IF stk = <<>>
    THEN Raise(t)
    ELSE LET top == stk[Len(stk)] IN
         Ok([WithStack(t, SubSeq(stk, 1, Len(stk) - 1)) EXCEPT
                !.plugin = top[1],
                !.cur_file_dict = top[2],
                !.last_line = top[3]])

\* if self.arcs and self.cur_file_dict:
\*     self.cur_file_dict[(self.last_line, -first)] = None
\* A tuple that holds the list [0] is unhashable.
RecordExit(t, first) ==
    IF t.arcs /\ Truthy(t)
    THEN IF t.last_line.list
         THEN Raise(t)
         ELSE Ok(SetItem(t, <<t.last_line.n, -first>>))
    ELSE Ok(t)

\* Recover with the exit arc built from the first line of the frame of the
\* incoming event instead of the remembered one.
Recover_frame_first(t, ev) ==
    IF t.last_exc_back # NoFrame
    THEN IF ev.frame.id = t.last_exc_back
         THEN LET a == RecordExit(t, ev.frame.co_firstlineno) IN
              IF a.raised THEN a
              ELSE LET p == Pop(SwitchStack(a.self, ev.cid)) IN
                   IF p.raised THEN p
                   ELSE Ok([p.self EXCEPT !.last_exc_back = NoFrame])
         ELSE Ok([t EXCEPT !.last_exc_back = NoFrame])
    ELSE Ok(t)

\* Recover that clears the marker only when the frames match.
Recover_keeps_marker(t, ev) ==
    IF t.last_exc_back # NoFrame /\ ev.frame.id = t.last_exc_back
    THEN LET a == RecordExit(t, t.last_exc_firstlineno) IN
         IF a.raised THEN a
         ELSE LET p == Pop(SwitchStack(a.self, ev.cid)) IN
              IF p.raised THEN p
              ELSE Ok([p.self EXCEPT !.last_exc_back = NoFrame])
    ELSE Ok(t)

\* The check at the top of _trace for a return event the host skipped.
Recover(t, ev) ==
    IF t.last_exc_back # NoFrame
    THEN IF ev.frame.id = t.last_exc_back
         THEN LET a == RecordExit(t, t.last_exc_firstlineno) IN
              IF a.raised THEN a
              ELSE LET p == Pop(SwitchStack(a.self, ev.cid)) IN
                   IF p.raised THEN p
                   ELSE Ok([p.self EXCEPT !.last_exc_back = NoFrame])
         ELSE Ok([t EXCEPT !.last_exc_back = NoFrame])
    ELSE Ok(t)

\* The name the unit is recorded under, or None.
Tracename(disp, dyn) ==
    IF disp.trace
    THEN IF disp.plugin # "None" /\ dyn # "nofunc"
         THEN IF dyn # "None" /\ ~check_include(dyn) THEN "None" ELSE dyn
         ELSE disp.source_filename
    ELSE "None"

\* Lookup without the store into the cache.
Lookup_no_store(t, filename) ==
    IF filename \in DOMAIN t.should_trace_cache
    THEN [self |-> t, disp |-> t.should_trace_cache[filename], asked |-> {}]
    ELSE [self |-> t, disp |-> should_trace(filename), asked |-> {filename}]

\* disp = self.should_trace_cache.get(filename), and on a miss the call of
\* the oracle and the fill of the cache: the tracer afterwards, disp, and the
\* filenames the oracle was asked.
Lookup(t, filename) ==
    IF filename \in DOMAIN t.should_trace_cache
    THEN [self |-> t, disp |-> t.should_trace_cache[filename], asked |-> {}]
    ELSE [self |-> [t EXCEPT !.should_trace_cache =
                                @ @@ (filename :> should_trace(filename))],
          disp |-> should_trace(filename),
          asked |-> {filename}]

\* OnCall that creates a record holding the first line of the scope.
OnCall_seeds_record(t, ev) ==
    LET t1 == IF t.coroutine_id_func
              THEN [SwitchStack(t, ev.cid) EXCEPT !.last_coroutine = ev.cid]
              ELSE t
        t2 == WithStack(t1, Append(CurStack(t1),
                                   <<t1.plugin, t1.cur_file_dict, t1.last_line>>))
        c == Lookup(t2, ev.frame.co_filename)
        disp == c.disp
        tracename == Tracename(disp, ev.dyn)
        t3 == IF tracename # "None"
              THEN [c.self EXCEPT
                      !.data = IF tracename \in DOMAIN @
                               THEN @ ELSE @ @@ (tracename :> {ev.frame.co_firstlineno}),
                      !.plugin_data =
                          IF tracename \notin DOMAIN c.self.data
                             /\ disp.plugin # "None"
                          THEN @ @@ (tracename :> disp.plugin) ELSE @,
                      !.cur_file_dict = tracename,
                      !.plugin = disp.plugin]
              ELSE [c.self EXCEPT !.plugin = "None", !.cur_file_dict = "None"]
    IN  [Ok([t3 EXCEPT !.last_line = IntLine(-1)]) EXCEPT !.asked = c.asked]

\* event == 'call'
OnCall(t, ev) ==
    LET t1 == IF t.coroutine_id_func
              THEN [SwitchStack(t, ev.cid) EXCEPT !.last_coroutine = ev.cid]
              ELSE t
        t2 == WithStack(t1, Append(CurStack(t1),
                                   <<t1.plugin, t1.cur_file_dict, t1.last_line>>))
        c == Lookup(t2, ev.frame.co_filename)
        disp == c.disp
        tracename == Tracename(disp, ev.dyn)
        t3 == IF tracename # "None"
              THEN [c.self EXCEPT
                      !.data = IF tracename \in DOMAIN @
                               THEN @ ELSE @ @@ (tracename :> {}),
                      !.plugin_data =
                          IF tracename \notin DOMAIN c.self.data
                             /\ disp.plugin # "None"
                          THEN @ @@ (tracename :> disp.plugin) ELSE @,
                      !.cur_file_dict = tracename,
                      !.plugin = disp.plugin]
              ELSE [c.self EXCEPT !.plugin = "None", !.cur_file_dict = "None"]
    IN  [Ok([t3 EXCEPT !.last_line = IntLine(-1)]) EXCEPT !.asked = c.asked]

\* OnLine with the truth value of cur_file_dict tested (as the return branch
\* does) instead of `is not None`.
OnLine_truthy(t, ev) ==
    LET n == ev.frame.f_lineno IN
    IF Truthy(t)
    THEN IF t.arcs
         THEN Ok([SetItem(t, <<t.last_line.n, n>>) EXCEPT !.last_line = IntLine(n)])
         ELSE Ok([SetItem(t, n) EXCEPT !.last_line = IntLine(n)])
    ELSE Ok([t EXCEPT !.last_line = IntLine(n)])

\* OnLine that leaves last_line alone when cur_file_dict is None.
OnLine_skips_untraced(t, ev) ==
    IF t.cur_file_dict = "None" THEN Ok(t) ELSE OnLine_truthy(t, ev)

\* event == 'line'
OnLine(t, ev) ==
    LET range == IF t.plugin \notin {"None", "[]"}
                 THEN ev.range
                 ELSE <<ev.frame.f_lineno, ev.frame.f_lineno>>
        lineno_from == range[1]
        lineno_to == range[2]
    IN  IF lineno_from # -1
        THEN IF t.cur_file_dict # "None"
             THEN IF t.cur_file_dict = "[]"
                  THEN Raise(t)   \* a list takes neither a tuple nor this index
                  ELSE IF t.arcs
                       THEN IF t.last_line.list
                            THEN Raise(t)
                            ELSE Ok([SetItem(t, <<t.last_line.n, lineno_from>>)
                                       EXCEPT !.last_line = IntLine(lineno_to)])
                       ELSE Ok([t EXCEPT
                                  !.data[t.cur_file_dict] =
                                      @ \cup (lineno_from..lineno_to),
                                  !.last_line = IntLine(lineno_to)])
             ELSE Ok([t EXCEPT !.last_line = IntLine(lineno_to)])
        ELSE Ok(t)

\* event == 'return'
OnReturn(t, ev) ==
    LET a == RecordExit(t, ev.frame.co_firstlineno) IN
    IF a.raised THEN a
    ELSE LET t1 == IF a.self.coroutine_id_func
                   THEN [SwitchStack(a.self, ev.cid) EXCEPT
                            !.last_coroutine = ev.cid]
                   ELSE a.self
         IN  Pop(t1)

\* event == 'exception'
OnException(t, ev) ==
    Ok([t EXCEPT !.last_exc_back = ev.frame.f_back,
                 !.last_exc_firstlineno = ev.frame.co_firstlineno])

Dispatch(t, ev) ==
    CASE ev.event = "call" -> OnCall(t, ev)
      [] ev.event = "line" -> OnLine(t, ev)
      [] ev.event = "return" -> OnReturn(t, ev)
      [] ev.event = "exception" -> OnException(t, ev)
      [] OTHER -> Ok(t)

\* _trace without the check of self.stopped.
trace_ignores_stopped(t, ev) ==
    LET r == Recover(t, ev) IN
    IF r.raised
    THEN [self |-> r.self, ret |-> "raise", asked |-> {}]
    ELSE LET d == Dispatch(r.self, ev) IN
         [self |-> d.self,
          ret |-> IF d.raised THEN "raise" ELSE "self",
          asked |-> d.asked]

\* PyTracer._trace(frame, event, arg_unused): the tracer afterwards, what the
\* call returned ("self", "None", or "raise" when it raised), and the
\* filenames should_trace was called with.
trace(t, ev) ==
    IF t.stopped
    THEN [self |-> t, ret |-> "None", asked |-> {}]
    ELSE LET r == Recover(t, ev) IN
         IF r.raised
         THEN [self |-> r.self, ret |-> "raise", asked |-> {}]
         ELSE LET d == Dispatch(r.self, ev) IN
              [self |-> d.self,
               ret |-> IF d.raised THEN "raise" ELSE "self",
               asked |-> d.asked]

\* start() that also clears the stopped flag.
start_clears_stopped(t, th) ==
    IF t.threading
    THEN [t EXCEPT !.thread = th, !.stopped = FALSE]
    ELSE [t EXCEPT !.stopped = FALSE]

\* PyTracer.start() called on thread th.  sys.settrace is applied by Start.
start(t, th) == IF t.threading THEN [t EXCEPT !.thread = th] ELSE t

\* stop() that warns whatever sys.gettrace() answers.
stop_warns_always(t, th, gettrace) ==
    LET t1 == [t EXCEPT !.stopped = TRUE] IN
    IF t.threading /\ t.thread # th
    THEN [self |-> t1, warns |-> 0, settrace |-> FALSE]
    ELSE [self |-> t1, warns |-> IF t.warn THEN 1 ELSE 0, settrace |-> TRUE]

\* stop() without the test of the calling thread.
stop_any_thread(t, th, gettrace) ==
    [self |-> [t EXCEPT !.stopped = TRUE],
     warns |-> IF t.warn /\ gettrace # "self" THEN 1 ELSE 0,
     settrace |-> TRUE]

\* PyTracer.stop() called on thread th, gettrace being what sys.gettrace()
\* answers there: the tracer afterwards, the number of calls of self.warn,
\* and whether sys.settrace(None) was reached.
stop(t, th, gettrace) ==
    LET t1 == [t EXCEPT !.stopped = TRUE] IN
    IF t.threading /\ t.thread # th
    THEN [self |-> t1, warns |-> 0, settrace |-> FALSE]
    ELSE [self |-> t1,
          warns |-> IF t.warn /\ gettrace # "self" THEN 1 ELSE 0,
          settrace |-> TRUE]

----------------------------------------------------------------------------
(* The host: the interpreter running the traced program.  Every stream has *)
(* a stack of live frames; the frame at depth d of stream s is <<s, d>>,   *)
(* and <<s, 0>> is the frame below the first traced call, which has no     *)
(* trace function and so never has an event delivered.  A live frame also  *)
(* carries what the host knows of it: prev, the line it executed last (-1  *)
(* before the first), unit, the name it is to be recorded under, and ctx,  *)
(* the tracer's (plugin, cur_file_dict, last_line) when it was called.     *)

ActiveStreams == IF tracer.coroutine_id_func THEN Streams ELSE {"s1"}

Depth(s) == Len(host[s])
Top(s) == host[s][Depth(s)]

\* After a skipped return the next event is one of the caller's frame.
Resumes(s) == IF skipped = <<>> THEN TRUE ELSE skipped[1].id[1] = s

\* The frame object handed to _trace for a live frame h at line n.
Frame(h, n) ==
    [id |-> h.id, f_back |-> h.f_back, co_filename |-> h.co_filename,
     co_firstlineno |-> h.co_firstlineno, f_lineno |-> n]

Event(kind, h, n, s, dyn, range) ==
    [event |-> kind, frame |-> Frame(h, n), cid |-> s, dyn |-> dyn,
     range |-> range]

\* The tracer as it would be after ev, had the host delivered the return
\* event of the frame it skipped just before ev; <<>> when it skipped none.
AsIfReturned(t, ev) ==
    IF skipped = <<>>
    THEN <<>>
    ELSE LET h == skipped[1]
             a == trace(t, Event("return", h, h.prev, ev.cid, "None",
                                 <<h.prev, h.prev>>))
         IN  IF a.ret = "raise" THEN <<a.self>> ELSE <<trace(a.self, ev).self>>

\* What the program really executed in unit "a.py" while the session ran:
\* lines in line mode, transitions in arc mode.
IdealAfter(kind, h, n) ==
    IF h.co_filename # "a.py" \/ tracer.stopped THEN ideal
    ELSE CASE kind = "line" ->
                ideal \cup (IF tracer.arcs THEN {<<h.prev, n>>} ELSE {n})
           [] kind \in {"return", "unwind"} ->
                ideal \cup (IF tracer.arcs
                            THEN {<<h.prev, -h.co_firstlineno>>} ELSE {})
           [] OTHER -> ideal

\* The host calls the trace function of thread th with ev, an event of the
\* frame h of stream s.  A trace function that raises is unset by the host.
Deliver(th, s, h, ev) ==
    LET r == trace(tracer, ev) IN
    /\ hook[th] = "self"
    /\ events > 0
    /\ events' = events - 1
    /\ tracer' = r.self
    /\ hook' = IF r.ret = "raise" THEN [hook EXCEPT ![th] = "none"] ELSE hook
    /\ last' = [op |-> ev.event, thread |-> "None", ret |-> r.ret,
                recov |-> skipped, unit |-> h.unit, foreign |-> FALSE]
    /\ oracle_calls' = [f \in Filenames |->
                          oracle_calls[f] + (IF f \in r.asked THEN 1 ELSE 0)]
    /\ entered' = IF ev.event = "call" /\ ~tracer.stopped
                  THEN entered \cup {ev.frame.co_filename} ELSE entered
    /\ solo' = IF tracer.coroutine_id_func
               THEN [solo EXCEPT ![s] = trace(@, ev).self] ELSE solo
    /\ asif' = AsIfReturned(tracer, ev)
    /\ skipped' = <<>>
    /\ UNCHANGED <<warned, starter>>

\* The first lines of the scopes of file f: the traced program has a scope
\* at every line of "a.py" and one scope in every other file.
FirstLines(f) == IF f = "a.py" THEN Lines ELSE {1}

\* A scope of file f, first line `first`, is entered in stream s.
Call(files) ==
    \E th \in Threads, s \in ActiveStreams, f \in files, dyn \in DynResults :
      \E first \in FirstLines(f) :
        LET h == [id |-> <<s, Depth(s) + 1>>, f_back |-> <<s, Depth(s)>>,
                  co_filename |-> f, co_firstlineno |-> first, prev |-> -1,
                  unit |-> Tracename(should_trace(f), dyn),
                  ctx |-> <<tracer.plugin, tracer.cur_file_dict,
                            tracer.last_line>>]
        IN  /\ skipped = <<>>
            /\ Depth(s) < MaxDepth
            /\ IF should_trace(f).plugin = "None" THEN dyn = "nofunc" ELSE TRUE
            /\ Deliver(th, s, h, Event("call", h, first, s, dyn, <<first, first>>))
            /\ host' = [host EXCEPT ![s] = Append(@, h)]
            /\ ideal' = ideal

\* The top frame of stream s executes line n (the plugin, if any, reports
\* the range of the statement).
Line ==
    \E th \in Threads, s \in ActiveStreams, n \in Lines, range \in Ranges :
        /\ Depth(s) > 0
        /\ Resumes(s)
        /\ IF should_trace(Top(s).co_filename).plugin = "None"
           THEN range = <<n, n>> ELSE TRUE
        /\ Deliver(th, s, Top(s), Event("line", Top(s), n, s, "None", range))
        /\ host' = [host EXCEPT ![s][Depth(s)].prev = n]
        /\ ideal' = IdealAfter("line", Top(s), n)

\* The top frame of stream s returns.
Return ==
    \E th \in Threads, s \in ActiveStreams :
        LET h == Top(s) IN
        /\ Depth(s) > 0
        /\ Resumes(s)
        /\ Deliver(th, s, h, Event("return", h, h.prev, s, "None",
                                   <<h.prev, h.prev>>))
        /\ host' = [host EXCEPT ![s] = SubSeq(@, 1, Depth(s) - 1)]
        /\ ideal' = IdealAfter("return", h, h.prev)

\* An exception is raised in, or propagates into, the top frame of stream s.
Exception ==
    \E th \in Threads, s \in ActiveStreams :
        LET h == Top(s) IN
        /\ Depth(s) > 0
        /\ Resumes(s)
        /\ Deliver(th, s, h, Event("exception", h, h.prev, s, "None",
                                   <<h.prev, h.prev>>))
        /\ UNCHANGED <<host, ideal>>

\* The exception leaves the top frame of stream s and the host delivers no
\* return event for it: the frame is gone, and the next event is one of its
\* caller's, when the caller is traced.
Unwind ==
    \E s \in ActiveStreams :
        LET h == Top(s) IN
        /\ Depth(s) > 0
        /\ skipped = <<>>
        /\ last.op = "exception" /\ tracer.last_exc_back = h.f_back
        /\ host' = [host EXCEPT ![s] = SubSeq(@, 1, Depth(s) - 1)]
        /\ skipped' = IF Depth(s) > 1 THEN <<h>> ELSE <<>>
        /\ ideal' = IdealAfter("unwind", h, h.prev)
        /\ last' = [last EXCEPT !.op = "unwind", !.ret = "-", !.unit = h.unit]
        /\ UNCHANGED <<tracer, hook, warned, oracle_calls, entered, solo, asif,
                       events, starter>>

\* The host delivers an event that no call event announced: an event of a
\* frame that was already running when the trace function was installed.
Stray ==
    \E th \in Threads, kind \in {"line", "return", "exception"}, n \in Lines :
        LET h == [id |-> <<"s1", 0>>, f_back |-> NoFrame,
                  co_filename |-> "a.py", co_firstlineno |-> 1, prev |-> n,
                  unit |-> "A"]
        IN  /\ Depth("s1") = 0
            /\ skipped = <<>>
            /\ Deliver(th, "s1", h, Event(kind, h, n, "s1", "None", <<n, n>>))
            /\ UNCHANGED <<host, ideal>>

\* Another tool replaces the trace function of thread th by its own
\* (sys.settrace(other) in the traced program).
Tamper ==
    \E th \in Threads :
        /\ hook[th] = "self"
        /\ hook' = [hook EXCEPT ![th] = "other"]
        /\ asif' = <<>>
        /\ last' = [op |-> "tamper", thread |-> th, ret |-> "-",
                    recov |-> <<>>, unit |-> "None", foreign |-> FALSE]
        /\ UNCHANGED <<tracer, warned, host, skipped, oracle_calls, entered,
                       ideal, solo, events, starter>>

\* tracer.start() on thread th.
Start(threads) ==
    \E th \in threads :
        /\ tracer' = start(tracer, th)
        /\ hook' = [hook EXCEPT ![th] = "self"]
        /\ solo' = [s \in Streams |-> start(solo[s], th)]
        /\ asif' = <<>>
        /\ last' = [op |-> "start", thread |-> th, ret |-> "self",
                    recov |-> <<>>, unit |-> "None", foreign |-> FALSE]
        /\ starter' = th
        /\ UNCHANGED <<warned, host, skipped, oracle_calls, entered, ideal,
                       events>>

\* tracer.stop() on thread th.
Stop(threads) ==
    \E th \in threads :
        LET r == stop(tracer, th, hook[th]) IN
        /\ warned + r.warns <= MaxWarn
        /\ tracer' = r.self
        /\ hook' = IF r.settrace THEN [hook EXCEPT ![th] = "none"] ELSE hook
        /\ warned' = warned + r.warns
        /\ solo' = [s \in Streams |-> stop(solo[s], th, hook[th]).self]
        /\ asif' = <<>>
        /\ last' = [op |-> "stop", thread |-> th, ret |-> "None",
                    recov |-> <<>>, unit |-> "None", foreign |-> hook[th] = "other"]
        /\ UNCHANGED <<host, skipped, oracle_calls, entered, ideal, events,
                       starter>>

----------------------------------------------------------------------------
(* Specifications.                                                         *)

InitWith(arcsChoices, coroutineChoices, threadingChoices, budget) ==
    /\ \E a \in arcsChoices, c \in coroutineChoices, th \in threadingChoices :
          tracer = NewTracer(a, c, th, TRUE)
    /\ hook = [th \in Threads |-> "none"]
    /\ warned = 0
    /\ host = [s \in Streams |-> <<>>]
    /\ skipped = <<>>
    /\ last = [op |-> "init", thread |-> "None", ret |-> "-",
               recov |-> <<>>, unit |-> "None", foreign |-> FALSE]
    /\ oracle_calls = [f \in Filenames |-> 0]
    /\ entered = {}
    /\ ideal = {}
    /\ solo = [s \in Streams |-> tracer]
    /\ asif = <<>>
    /\ events = budget
    /\ starter = "None"

\* The life cycle: start() and stop() from any thread, with and without a
\* threading module, around the events of a program of a traced and an
\* untraced unit, in both modes.
Init == InitWith({TRUE}, {FALSE}, BOOLEAN, LifeEvents)

Next ==
    \/ Start({"t1"})
    \/ Stop(Threads)
    \/ Call({"a.py", "x.py"})
    \/ Line
    \/ Return
    \/ Exception

Spec == Init /\ [][Next]_vars

\* Line mode, no plugin, one stream, one traced unit, no exceptions.
InitLines == InitWith({FALSE}, {FALSE}, {FALSE}, MaxEvents)

NextPaired ==
    \/ Start({"t1"})
    \/ Call({"a.py"})
    \/ Line
    \/ Return

SpecLines == InitLines /\ [][NextPaired]_vars

\* Arc mode, no plugin, one stream, one traced unit, no exceptions.
InitArcs == InitWith({TRUE}, {FALSE}, {FALSE}, MaxEvents)

SpecArcs == InitArcs /\ [][NextPaired]_vars

\* Two streams with a stream resolver, a traced and an untraced unit.
InitStreams == InitWith(BOOLEAN, {TRUE}, {FALSE}, StreamEvents)

NextStreams ==
    \/ Start({"t1"})
    \/ Call({"a.py", "x.py"})
    \/ Line
    \/ Return

SpecStreams == InitStreams /\ [][NextStreams]_vars

\* One stream, exceptions and skipped returns, a traced and an untraced unit.
InitExc == InitWith(BOOLEAN, {FALSE}, {FALSE}, MaxEvents)

NextExc ==
    \/ Start({"t1"})
    \/ Call({"a.py", "x.py"})
    \/ Line
    \/ Return
    \/ Exception
    \/ Unwind

SpecExc == InitExc /\ [][NextExc]_vars

\* One stream, and a host that also delivers the events of a frame whose
\* call event the tracer never saw.
NextHost ==
    \/ Start({"t1"})
    \/ Call({"a.py", "x.py"})
    \/ Line
    \/ Return
    \/ Exception
    \/ Stray

SpecHost == InitExc /\ [][NextHost]_vars

\* One stream, units with a plugin, exceptions and skipped returns.
NextUnits ==
    \/ Start({"t1"})
    \/ Call({"x.py", "t.html"})
    \/ Line
    \/ Return
    \/ Exception
    \/ Unwind

SpecUnits == InitExc /\ [][NextUnits]_vars

\* The life cycle with a tool that replaces the trace function.
NextTamper ==
    \/ Start({"t1"})
    \/ Stop(Threads)
    \/ Tamper
    \/ Call({"a.py"})
    \/ Line
    \/ Return

SpecTamper == Init /\ [][NextTamper]_vars

\* A session from start() to stop() and after, over two files that two
\* plugins map to the same unit, with exceptions and skipped returns.
InitStore == InitWith(BOOLEAN, {FALSE}, {FALSE}, LifeEvents)

NextStore ==
    \/ Start({"t1"})
    \/ Stop({"t1"})
    \/ Call({"t.html", "t.tmpl"})
    \/ Line
    \/ Return
    \/ Exception
    \/ Unwind

SpecStore == InitStore /\ [][NextStore]_vars

----------------------------------------------------------------------------
(* The claims.                                                             *)

EventKinds == {"call", "line", "return", "exception"}

\* What the tracer t has recorded for the unit `name`.
RecordOf(t, name) == IF name \in DOMAIN t.data THEN t.data[name] ELSE {}

\* C1: in line mode, with no plugin and one stream, after every well-paired
\* sequence of call/line/return events in one traced unit the set recorded
\* for the unit is exactly the set of line numbers the line events carried.
C1_LinesRecordedExactly ==
    ~tracer.arcs => RecordOf(tracer, "A") = ideal

\* A nested call has returned to a caller that has returned too, and every
\* line has been executed.
C1_Witness ==
    /\ ~tracer.arcs
    /\ last.op = "return"
    /\ Depth("s1") = 0
    /\ events = 0
    /\ RecordOf(tracer, "A") = Lines

\* C2: in arc mode, with no plugin and one stream, after every well-paired
\* sequence of call/line/return events in one traced unit the set recorded
\* for the unit is exactly the set of transitions taken: for every call the
\* entry arc (-1, first executed line), the arcs between its lines, and the
\* exit arc (last executed line, -first line of the scope).
C2_ArcsRecordedExactly ==
    tracer.arcs => RecordOf(tracer, "A") = ideal

\* C3: with a stream resolver, whatever the interleaving of two streams,
\* every unit's record is what the streams would have recorded had each been
\* traced alone.
C3_StreamsIsolated ==
    \A name \in {"A", "B", "T", "U"} :
        RecordOf(tracer, name) =
            UNION {RecordOf(solo[s], name) : s \in Streams}

\* The fields claim C4 compares.
Restored(t) ==
    <<t.data, t.stack0, t.data_stacks, t.plugin, t.cur_file_dict, t.last_line>>

\* C4: when the host skips the return event of a frame after its exception
\* event, then after the next event, one of the caller's frame, the data
\* store, the context stacks and the current (plugin, unit record,
\* last_line) are what they would be had the return event been delivered
\* just before that event.
C4_SkippedReturnRecovered ==
    asif # <<>> => Restored(tracer) = Restored(asif[1])

\* A return was skipped for a frame of the traced unit that had executed a
\* line, in arc mode, and its exit arc is in the record after the next event.
C4_Witness ==
    /\ asif # <<>>
    /\ last.recov # <<>>
    /\ tracer.arcs
    /\ last.ret = "self"
    /\ Depth("s1") > 0
    /\ LET h == last.recov[1] IN
         /\ h.unit = "A"
         /\ h.prev # -1
         /\ h.co_firstlineno # Top("s1").co_firstlineno
         /\ <<h.prev, -h.co_firstlineno>> \in RecordOf(tracer, "A")

\* C5: should_trace has been called exactly once for every filename a call
\* event has carried, and never for another.
C5_OracleOncePerFile ==
    \A f \in Filenames : oracle_calls[f] = IF f \in entered THEN 1 ELSE 0

\* Two nested frames of the same file are live: the file was entered twice.
C5_Witness ==
    /\ Depth("s1") = 2
    /\ host["s1"][1].co_filename = "a.py"
    /\ host["s1"][2].co_filename = "a.py"
    /\ oracle_calls["a.py"] = 1
    /\ oracle_calls["x.py"] = 1

\* C6: a unit that is not to be traced (do-not-trace, no name from the
\* plugin, or a name the inclusion filter rejects) has no key in the data
\* store, and no event of one of its frames adds anything to any record.
C6_UntracedNeverRecorded ==
    [][ /\ DOMAIN tracer'.data \cap {"None", "U", "x.py"} = {}
        /\ (last'.op \in EventKinds /\ last'.unit = "None" /\ last'.recov = <<>>)
              => tracer'.data = tracer.data ]_vars

\* C7: handling an event never raises.
C7_NeverRaises == last.ret # "raise"

\* C8: every call of the handler returns the handler itself.
C8_AlwaysReturnsItself == last.op \in EventKinds => last.ret = "self"

\* What C9 says of start() and of stop() called on another thread than the
\* one that called start().
HalfStop ==
    /\ last'.op = "start" => tracer'.thread = last'.thread
    /\ (last'.op = "stop" /\ starter \notin {"None", last'.thread})
          => /\ tracer'.stopped
             /\ hook' = hook
             /\ warned' = warned

\* C9 as stated: in every configuration start() records the starting thread
\* and stop() from another thread only sets the stopped flag.
C9_HalfStopInEveryConfiguration == [][HalfStop]_vars

\* C9 as amended: with a threading module configured, start() records the
\* starting thread and stop() from another thread only sets the stopped
\* flag: no hook is cleared and warn is not called.
C9_HalfStopWithThreading == [][tracer.threading => HalfStop]_vars

\* stop() has just been called on t2 for a tracer started on t1.
C9_Witness ==
    /\ tracer.threading
    /\ last.op = "stop"
    /\ last.thread = "t2"
    /\ starter = "t1"
    /\ tracer.thread = "t1"
    /\ hook["t1"] = "self"
    /\ tracer.stopped

\* C10: once stopped is set, an event changes nothing of the data store, the
\* plugin map, the decision cache, the context stacks, the current (plugin,
\* unit record, last_line) and the exception markers, and the oracle is not
\* called.
C10_StoppedEventsChangeNothing ==
    [][ (tracer.stopped /\ last'.op \in EventKinds)
          => /\ Restored(tracer') = Restored(tracer)
             /\ tracer'.plugin_data = tracer.plugin_data
             /\ tracer'.should_trace_cache = tracer.should_trace_cache
             /\ tracer'.last_exc_back = tracer.last_exc_back
             /\ tracer'.last_exc_firstlineno = tracer.last_exc_firstlineno
             /\ oracle_calls' = oracle_calls ]_vars

\* A call event of a file the cache does not hold was delivered after stop().
C10_Witness ==
    /\ tracer.stopped
    /\ last.op = "call"
    /\ last.ret = "None"
    /\ Depth("s1") > 0
    /\ Top("s1").co_filename \notin DOMAIN tracer.should_trace_cache
    /\ DOMAIN tracer.data # {}

\* C11: stop() on the thread that called start(): self.warn is called once
\* when sys.gettrace() is not the handler and not at all when it is; in both
\* cases the stopped flag is set and the thread's trace function is unset.
C11_StopWarnsOnForeignHook ==
    [][ (last'.op = "stop" /\ last'.thread = starter)
          => /\ warned' - warned = (IF hook[starter] = "self" THEN 0 ELSE 1)
             /\ tracer'.stopped
             /\ hook'[starter] = "none" ]_vars

\* stop() was called on the starting thread while another tool's trace
\* function was installed there, and warned.
C11_Witness ==
    /\ last.op = "stop"
    /\ last.thread = starter
    /\ last.foreign
    /\ warned = 1
    /\ hook[starter] = "none"
    /\ DOMAIN tracer.data # {}

\* The line numbers one invocation of a scope executes, in order.
Trails == UNION {[1..k -> Lines] : k \in 0..MaxLine}

RECURSIVE AfterLines(_, _, _)
\* The tracer t after the line events of frame h for the lines of trail.
AfterLines(t, h, trail) ==
    IF trail = <<>> THEN t
    ELSE AfterLines(trace(t, Event("line", h, Head(trail), "s1", "None",
                                   <<Head(trail), Head(trail)>>)).self,
                    h, Tail(trail))

\* The tracer t after one complete invocation from the running frame of a
\* scope of "a.py" that starts at line `first` and executes `trail`: its call
\* event, its line events and its return event.
AfterInvocation(t, first, trail) ==
    LET h == [id |-> <<"s1", Depth("s1") + 1>>, f_back |-> <<"s1", Depth("s1")>>,
              co_filename |-> "a.py", co_firstlineno |-> first, prev |-> -1,
              unit |-> "A"]
        c == trace(t, Event("call", h, first, "s1", "nofunc", <<first, first>>))
        l == AfterLines(c.self, h, trail)
    IN  trace(l, Event("return", h, first, "s1", "None", <<first, first>>)).self

\* C12: once an invocation of a traced scope has been processed, a second
\* identical invocation leaves the data store unchanged, whether it follows
\* at once or after an invocation of another scope.
C12_SecondInvocationAddsNothing ==
    (hook["t1"] = "self" /\ ~tracer.stopped) =>
        \A first \in Lines, trail \in Trails :
            LET once == AfterInvocation(tracer, first, trail) IN
            /\ AfterInvocation(once, first, trail).data = once.data
            /\ \A first2 \in Lines, trail2 \in Trails :
                  LET between == AfterInvocation(once, first2, trail2) IN
                  AfterInvocation(between, first, trail).data = between.data

\* C12 for invocations that execute at least one line.
C12_SecondInvocationWithLines ==
    (hook["t1"] = "self" /\ ~tracer.stopped) =>
        \A first \in Lines, trail \in Trails \ {<<>>} :
            LET once == AfterInvocation(tracer, first, trail) IN
            /\ AfterInvocation(once, first, trail).data = once.data
            /\ \A first2 \in Lines, trail2 \in Trails :
                  LET between == AfterInvocation(once, first2, trail2) IN
                  AfterInvocation(between, first, trail).data = between.data

\* The context stack the tracer t keeps for stream s.
StackOf(t, s) == IF t.coroutine_id_func THEN t.data_stacks[s] ELSE t.stack0

\* C13: after every event handled while recording, the context stack of
\* every stream is as deep as the number of the stream's frames that were
\* called and have not returned; a frame whose return event was skipped
\* counts until the event after the skip has been handled.
C13_StackDepthMatchesOutstanding ==
    (last.op \in EventKinds /\ last.ret = "self") =>
        \A s \in ActiveStreams : Len(StackOf(tracer, s)) = Depth(s)

\* The current context of the tracer t.
Context(t) == <<t.plugin, t.cur_file_dict, t.last_line>>

\* C14: with one stream, the return event of a frame leaves the current
\* (plugin, unit record, last_line) as they were just before the frame's call
\* event, whatever was handled inside the frame and whether or not it was
\* traced; so in arc mode the next line event of a traced frame records the
\* arc from the line that frame executed last.
C14_CallReturnRoundTrip ==
    [][ /\ (last'.op = "return" /\ last'.ret = "self")
              => Context(tracer') = Top("s1").ctx
        /\ (last'.op = "line" /\ last'.ret = "self" /\ tracer.arcs
               /\ Top("s1").unit = "A")
              => <<Top("s1").prev, host'["s1"][Depth("s1")].prev>>
                     \in RecordOf(tracer', "A") ]_vars

\* An untraced callee has just returned to a traced caller that had executed
\* a line, in arc mode: the caller's record and last line are current again.
C14_Witness ==
    /\ tracer.arcs
    /\ last.op = "return"
    /\ last.unit = "None"
    /\ Depth("s1") = 1
    /\ Top("s1").unit = "A"
    /\ Top("s1").prev # -1
    /\ tracer.cur_file_dict = "A"
    /\ tracer.last_line = IntLine(Top("s1").prev)

\* C15: in arc mode a return event handled while a unit record is current
\* adds the arc (last_line, -first line of the returning scope) to that
\* record, whatever the record holds, an empty record included.
C15_ReturnAlwaysAddsExitArc ==
    [][ (/\ last'.op = "return"
         /\ last'.ret = "self"
         /\ last'.recov = <<>>
         /\ tracer.arcs
         /\ tracer.cur_file_dict \notin {"None", "[]"})
          => <<tracer.last_line.n, -Top("s1").co_firstlineno>>
                 \in RecordOf(tracer', tracer.cur_file_dict) ]_vars

\* What C16 says a line event leaves alone, but for last_line.
Untouched(t) == <<t.data, t.stack0, t.data_stacks, t.plugin, t.cur_file_dict>>

\* C16 as stated: a line event handled while no unit record is current
\* changes neither the data store, nor the context stack, nor last_line.
C16_UntracedLineIsNoOp ==
    [][ (/\ last'.op = "line"
         /\ last'.ret = "self"
         /\ last'.recov = <<>>
         /\ tracer.cur_file_dict = "None")
          => /\ Untouched(tracer') = Untouched(tracer)
             /\ tracer'.last_line = tracer.last_line ]_vars

\* C16 as amended: a line event handled while no unit record is current
\* changes neither the data store nor the context stack, and sets last_line
\* to the line number of the event.
C16_UntracedLineSetsLastLine ==
    [][ (/\ last'.op = "line"
         /\ last'.ret = "self"
         /\ last'.recov = <<>>
         /\ tracer.cur_file_dict = "None")
          => /\ Untouched(tracer') = Untouched(tracer)
             /\ tracer'.last_line = IntLine(host'["s1"][Depth("s1")].prev) ]_vars

\* A frame of the untraced unit, called from a traced frame, has executed a
\* line: no record is current and last_line is that line.
C16_Witness ==
    /\ last.op = "line"
    /\ last.unit = "None"
    /\ Depth("s1") = 2
    /\ host["s1"][1].unit = "A"
    /\ tracer.cur_file_dict = "None"
    /\ tracer.last_line = IntLine(Top("s1").prev)
    /\ Top("s1").prev # -1

\* The frame of the event handled by the step: the frame a call event has
\* just added, the running frame for another event.
EventFrame ==
    IF last'.op = "call" THEN host'["s1"][Len(host'["s1"])] ELSE Top("s1")

\* The pushes less the pops the branch of an event makes by itself.
OwnPushes(kind) ==
    CASE kind = "call" -> 1 [] kind = "return" -> -1 [] OTHER -> 0

\* C17: while recording, the marker an exception event has set is cleared
\* by the next event handled, whether or not its frame is the marked one; the
\* return is replayed (one pop more than the event's own) exactly when the
\* frames match; after a call, line or return event the marker is empty, and
\* after an exception event it is the new one.
C17_OneShotLookahead ==
    [][ (last'.op \in EventKinds /\ last'.ret = "self")
          => /\ tracer'.last_exc_back =
                    (IF last'.op = "exception" THEN EventFrame.f_back
                     ELSE NoFrame)
             /\ Len(tracer'.stack0) =
                    Len(tracer.stack0) + OwnPushes(last'.op)
                    - (IF tracer.last_exc_back # NoFrame
                          /\ tracer.last_exc_back = EventFrame.id
                       THEN 1 ELSE 0) ]_vars

\* In arc mode a frame was called, had an exception event and then a line
\* event (the exception was handled in the frame, which is not the marked
\* one): the marker is empty and nothing was popped.
C17_Witness ==
    /\ tracer.arcs
    /\ last.op = "line"
    /\ Depth("s1") = 1
    /\ events = MaxEvents - 3
    /\ RecordOf(tracer, "A") = {<<-1, Top("s1").prev>>}
    /\ tracer.last_exc_back = NoFrame
    /\ Len(tracer.stack0) = 1

\* C18: no event and no start() or stop() removes a unit name from the data
\* store, removes a line or an arc from a record, or removes or changes an
\* entry of the plugin map.
C18_StoreOnlyGrows ==
    [][ /\ \A name \in DOMAIN tracer.data :
              /\ name \in DOMAIN tracer'.data
              /\ tracer.data[name] \subseteq tracer'.data[name]
        /\ \A name \in DOMAIN tracer.plugin_data :
              /\ name \in DOMAIN tracer'.plugin_data
              /\ tracer'.plugin_data[name] = tracer.plugin_data[name] ]_vars

\* A unit created through a file of one plugin, with a line recorded, has
\* been entered again through a file of another plugin: the record kept what
\* it held and the plugin map still names the first plugin.
C18_Witness ==
    /\ last.op = "call"
    /\ tracer.plugin = "Q"
    /\ tracer.cur_file_dict = "T"
    /\ tracer.plugin_data = ("T" :> "P")
    /\ RecordOf(tracer, "T") # {}

\* C19 as stated: every unit name in the data store has a non-empty record.
C19_RecordsNeverEmpty ==
    \A name \in DOMAIN tracer.data : tracer.data[name] # {}

\* C19 as amended: a unit name enters the data store, with an empty record,
\* at the first call event handled for a scope that is recorded under it,
\* and at no other step.
C19_RecordsCreatedAtCall ==
    [][ /\ DOMAIN tracer'.data =
              DOMAIN tracer.data \cup
                (IF last'.op = "call" /\ last'.ret = "self"
                 THEN {EventFrame.unit} \ {"None"} ELSE {})
        /\ \A name \in DOMAIN tracer'.data \ DOMAIN tracer.data :
              tracer'.data[name] = {} ]_vars

\* The first call event of a scope of unit T has been handled: T is in the
\* data store and its record is empty.
C19_Witness ==
    /\ last.op = "call"
    /\ last.unit = "T"
    /\ tracer.cur_file_dict = "T"
    /\ DOMAIN tracer.data = {"T"}
    /\ tracer.data["T"] = {}

\* C20: once stop() has been called, nothing done with the same tracer,
\* start() and further events included, clears the stopped flag or changes
\* the data store.
C20_StoppedForGood ==
    [][ tracer.stopped
          => /\ tracer'.stopped
             /\ tracer'.data = tracer.data ]_vars

\* After events were recorded, the tracer was stopped on its thread (a second
\* stop() there warned, the trace function being unset already) and started
\* again, and a call event has been delivered to it.
C20_Witness ==
    /\ tracer.threading
    /\ tracer.stopped
    /\ warned = 1
    /\ last.op = "call"
    /\ last.ret = "None"
    /\ DOMAIN tracer.data # {}
    /\ events < LifeEvents - 1

====
